---------------------------- MODULE Spec2Model ----------------------------
(***************************************************************************)
(* Model of ocr-service/app.py: the Flask handlers process_ocr (POST /ocr) *)
(* and health (GET /health) and the helpers allowed_file, ocr_image and    *)
(* ocr_pdf.  One request is handled per behaviour.  Python strings are     *)
(* sequences of one-character strings, so that prefixes, lengths, strip,   *)
(* rsplit, lower, split and join are computed as the code computes them.   *)
(* The two external programs (tesseract, pdftoppm), the upload's save and  *)
(* os.listdir are the environment: their outcomes are chosen by \E.        *)
(***************************************************************************)
EXTENDS Naturals, Sequences, FiniteSets

(* ------------------------------ bounds --------------------------------- *)
\* longest uploaded filename
MaxNameLen == 4

\* most pages the rasterizer writes for one PDF
MaxPages == 2

\* longest standard output / standard error of an external program
MaxOutLen == 2

(* --------------------------- string literals --------------------------- *)
ALLOWED_EXTENSIONS ==
    {<<"p", "n", "g">>, <<"j", "p", "g">>, <<"j", "p", "e", "g">>,
     <<"t", "i", "f", "f">>, <<"t", "i", "f">>, <<"b", "m", "p">>,
     <<"g", "i", "f">>, <<"w", "e", "b", "p">>, <<"p", "d", "f">>}

PDF_EXT == <<"p", "d", "f">>

OCR_ERROR_TAG == <<"[", "O", "C", "R", " ", "E", "r", "r", "o", "r", "]", " ">>

OCR_TIMEOUT_TEXT ==
    <<"[", "O", "C", "R", " ", "E", "r", "r", "o", "r", "]", " ", "P", "r",
      "o", "c", "e", "s", "s", "i", "n", "g", " ", "t", "i", "m", "e", "d",
      " ", "o", "u", "t">>

PDF_ERROR_TAG == <<"[", "P", "D", "F", " ", "E", "r", "r", "o", "r", "]", " ">>

PDF_ERROR_PREFIX ==
    <<"[", "P", "D", "F", " ", "E", "r", "r", "o", "r", "]", " ", "C", "o",
      "u", "l", "d", " ", "n", "o", "t", " ", "c", "o", "n", "v", "e", "r",
      "t", " ", "P", "D", "F", ":", " ">>

NO_TEXT_SENTINEL ==
    <<"[", "N", "o", " ", "t", "e", "x", "t", " ", "e", "x", "t", "r", "a",
      "c", "t", "e", "d", " ", "f", "r", "o", "m", " ", "P", "D", "F", "]">>

PAGE_HEAD == <<"-", "-", "-", " ", "P", "a", "g", "e", " ">>

PAGE_TAIL == <<" ", "-", "-", "-", "\n">>

PAGE_SEP == <<"\n", "\n">>

UNAVAILABLE == <<"u", "n", "a", "v", "a", "i", "l", "a", "b", "l", "e">>

STATUS_OK == <<"o", "k">>

ERR_NO_FILE ==
    <<"N", "o", " ", "f", "i", "l", "e", " ", "p", "r", "o", "v", "i", "d",
      "e", "d">>

ERR_EMPTY_FILENAME ==
    <<"E", "m", "p", "t", "y", " ", "f", "i", "l", "e", "n", "a", "m", "e">>

ERR_UNSUPPORTED_PREFIX ==
    <<"U", "n", "s", "u", "p", "p", "o", "r", "t", "e", "d", " ", "f", "i",
      "l", "e", " ", "t", "y", "p", "e", ":", " ">>

PAGE_PREFIX == <<"p", "a", "g", "e">>

PNG_SUFFIX == <<".", "p", "n", "g">>

\* the name tempfile.NamedTemporaryFile gives the upload, without its suffix
TMP_FILE_STEM == <<"/", "t", "m", "p", "/", "t", "m", "p", "A">>

\* the name tempfile.TemporaryDirectory gives the page directory
TMP_DIR == <<"/", "t", "m", "p", "/", "t", "m", "p", "D">>

(* ------------------------- Python string helpers ----------------------- *)
\* the characters str.strip() removes
Whitespace == {" ", "\t", "\n", "\r", "\f"}

RECURSIVE lstrip(_)
lstrip(s) ==
    IF s = <<>> \/ Head(s) \notin Whitespace THEN s ELSE lstrip(Tail(s))

RECURSIVE rstrip(_)
rstrip(s) ==
    IF s = <<>> \/ s[Len(s)] \notin Whitespace
    THEN s
    ELSE rstrip(SubSeq(s, 1, Len(s) - 1))

\* str.strip()
strip(s) == rstrip(lstrip(s))

\* str.lower() on one character
LowerChar(c) ==
    CASE c = "A" -> "a" [] c = "B" -> "b" [] c = "C" -> "c" [] c = "D" -> "d"
      [] c = "E" -> "e" [] c = "F" -> "f" [] c = "G" -> "g" [] c = "H" -> "h"
      [] c = "I" -> "i" [] c = "J" -> "j" [] c = "K" -> "k" [] c = "L" -> "l"
      [] c = "M" -> "m" [] c = "N" -> "n" [] c = "O" -> "o" [] c = "P" -> "p"
      [] c = "Q" -> "q" [] c = "R" -> "r" [] c = "S" -> "s" [] c = "T" -> "t"
      [] c = "U" -> "u" [] c = "V" -> "v" [] c = "W" -> "w" [] c = "X" -> "x"
      [] c = "Y" -> "y" [] c = "Z" -> "z" [] OTHER -> c

\* str.lower()
lower(s) == [k \in 1..Len(s) |-> LowerChar(s[k])]

\* '.' in filename
HasDot(s) == \E k \in 1..Len(s) : s[k] = "."

\* index of the last '.', 0 when there is none
LastDot(s) ==
    IF HasDot(s)
    THEN CHOOSE k \in 1..Len(s) :
            s[k] = "." /\ \A m \in (k + 1)..Len(s) : s[m] # "."
    ELSE 0

\* filename.rsplit('.', 1)[1], for a filename that contains a '.'
rsplit_ext(s) == SubSeq(s, LastDot(s) + 1, Len(s))

\* s.endswith(suffix)
endswith(s, suffix) ==
    /\ Len(s) >= Len(suffix)
    /\ SubSeq(s, Len(s) - Len(suffix) + 1, Len(s)) = suffix

\* s.split('\n')[0]
RECURSIVE first_line(_)
first_line(s) ==
    IF s = <<>> \/ Head(s) = "\n" THEN <<>> ELSE <<Head(s)>> \o first_line(Tail(s))

Digit == <<"0", "1", "2", "3", "4", "5", "6", "7", "8", "9">>

\* str(n) of a natural number
RECURSIVE Str(_)
Str(n) ==
    IF n < 10 THEN <<Digit[n + 1]>> ELSE Str(n \div 10) \o <<Digit[(n % 10) + 1]>>

\* the code point of the characters that page image names are made of
Ord(c) ==
    CASE c = "-" -> 45 [] c = "." -> 46 [] c = "0" -> 48 [] c = "1" -> 49
      [] c = "2" -> 50 [] c = "3" -> 51 [] c = "4" -> 52 [] c = "5" -> 53
      [] c = "6" -> 54 [] c = "7" -> 55 [] c = "8" -> 56 [] c = "9" -> 57
      [] c = "a" -> 97 [] c = "e" -> 101 [] c = "g" -> 103 [] c = "n" -> 110
      [] c = "p" -> 112

\* Python's < on two strings that agree before position k
RECURSIVE StrLessFrom(_, _, _)
StrLessFrom(a, b, k) ==
    IF k > Len(b) THEN FALSE
    ELSE IF k > Len(a) THEN TRUE
    ELSE IF a[k] = b[k] THEN StrLessFrom(a, b, k + 1)
    ELSE Ord(a[k]) < Ord(b[k])

\* Python's < on two strings
StrLess(a, b) == StrLessFrom(a, b, 1)

\* one step of insertion sort: x put into the sorted list s
RECURSIVE Insert(_, _)
Insert(x, s) ==
    IF s = <<>> THEN <<x>>
    ELSE IF StrLess(x, Head(s)) THEN <<x>> \o s
    ELSE <<Head(s)>> \o Insert(x, Tail(s))

\* sorted() left out: the names stay in the order os.listdir returned them
sorted_listing_order(s) == s

\* sorted(list)
RECURSIVE sorted(_)
sorted(s) == IF s = <<>> THEN <<>> ELSE Insert(Head(s), sorted(Tail(s)))

\* [f for f in listing if f.endswith('.png')]
RECURSIVE png_only(_)
png_only(s) ==
    IF s = <<>> THEN <<>>
    ELSE IF endswith(Head(s), PNG_SUFFIX) THEN <<Head(s)>> \o png_only(Tail(s))
    ELSE png_only(Tail(s))

\* sep.join(parts)
RECURSIVE join(_, _)
join(sep, parts) ==
    IF parts = <<>> THEN <<>>
    ELSE IF Len(parts) = 1 THEN parts[1]
    ELSE parts[1] \o sep \o join(sep, Tail(parts))

(* ----------------------------- environment ----------------------------- *)
\* all sequences over S of length at most n
SeqsUpTo(S, n) == UNION {[1..k -> S] : k \in 0..n}

\* characters uploaded filenames are made of
NameChars == {".", "P", "d", "f", "g", "i"}

Filenames == SeqsUpTo(NameChars, MaxNameLen)

\* request.files: no 'file' field, or a 'file' field with a filename
Requests ==
    {[present |-> FALSE, filename |-> <<>>]}
        \cup {[present |-> TRUE, filename |-> n] : n \in Filenames}

\* what tesseract writes on its standard output or standard error
Outputs == SeqsUpTo({" ", "a"}, MaxOutLen)

\* what tesseract --version writes on its standard output
VersionOutputs == SeqsUpTo({"v", "\n"}, MaxOutLen)

\* str(e) of an OSError raised when a program cannot be started
LaunchErrors == {<<"E", "N", "O", "E", "N", "T">>}

\* str(e) of subprocess.CalledProcessError
CALLED_PROCESS_ERROR == <<"e", "x", "i", "t", " ", "1">>

\* str(e) of subprocess.TimeoutExpired
TIMEOUT_EXPIRED == <<"t", "i", "m", "e", "d", " ", "o", "u", "t">>

Outcome(k, rc, out, err, m, n) ==
    [kind |-> k, returncode |-> rc, stdout |-> out, stderr |-> err,
     msg |-> m, pages |-> n]

\* outcomes of subprocess.run(['tesseract', filepath, ...], timeout=120)
EngineOutcomes ==
    {Outcome("exit", 0, out, <<>>, <<>>, 0) : out \in Outputs}
        \cup {Outcome("exit", 1, <<>>, err, <<>>, 0) : err \in Outputs}
        \cup {Outcome("timeout", 0, <<>>, <<>>, TIMEOUT_EXPIRED, 0)}
        \cup {Outcome("error", 0, <<>>, <<>>, m, 0) : m \in LaunchErrors}

\* outcomes of subprocess.run(['pdftoppm', ...], timeout=120, check=True);
\* pages is the number of page images a successful run wrote
RasterOutcomes ==
    {Outcome("exit", 0, <<>>, <<>>, <<>>, n) : n \in 0..MaxPages}
        \cup {Outcome("exit", 1, <<>>, <<>>, CALLED_PROCESS_ERROR, 0)}
        \cup {Outcome("timeout", 0, <<>>, <<>>, TIMEOUT_EXPIRED, 0)}
        \cup {Outcome("error", 0, <<>>, <<>>, m, 0) : m \in LaunchErrors}

\* outcomes of subprocess.run(['tesseract', '--version']) (no timeout)
VersionOutcomes ==
    {Outcome("exit", rc, out, <<>>, <<>>, 0) : rc \in {0, 1}, out \in VersionOutputs}
        \cup {Outcome("error", 0, <<>>, <<>>, m, 0) : m \in LaunchErrors}

\* outcomes of creating the temporary file and saving the upload into it
SaveOutcomes == {"ok", "create_failed", "save_failed"}

\* str(e) of the OSError raised when the upload cannot be created or saved
SAVE_ERROR == <<"E", "N", "O", "S", "P", "C">>

\* how an invocation ended, for the invocation log
OutcomeKind(o) ==
    IF o.kind = "exit"
    THEN IF o.returncode = 0 THEN "ok" ELSE "nonzero"
    ELSE o.kind

\* the k-th page image pdftoppm writes for prefix 'page' (zero-padded to the
\* width of the page count n)
RECURSIVE ZeroPad(_, _)
ZeroPad(s, w) == IF Len(s) >= w THEN s ELSE ZeroPad(<<"0">> \o s, w)

PageName(k, n) ==
    PAGE_PREFIX \o <<"-">> \o ZeroPad(Str(k), Len(Str(n))) \o PNG_SUFFIX

\* all orders in which os.listdir may return the names of set S
Listings(S) ==
    {p \in [1..Cardinality(S) -> S] : \A a, b \in 1..Cardinality(S) : a # b => p[a] # p[b]}

(* --------------------------- the pure functions ------------------------ *)
\* allowed_file without .lower(): the extension is compared as uploaded
allowed_file_case_sensitive(filename) ==
    HasDot(filename) /\ rsplit_ext(filename) \in ALLOWED_EXTENSIONS

\* allowed_file(filename)
allowed_file(filename) ==
    HasDot(filename) /\ lower(rsplit_ext(filename)) \in ALLOWED_EXTENSIONS

\* the result of a call: a returned value or a raised exception
Return(v) == [raised |-> FALSE, val |-> v]

Raise(m) == [raised |-> TRUE, val |-> m]

\* ocr_image without the "except Exception" clause: a failure to start
\* tesseract is raised to the caller
ocr_image_no_catch_all(o) ==
    IF o.kind = "exit"
    THEN IF o.returncode = 0
         THEN Return(strip(o.stdout))
         ELSE Return(OCR_ERROR_TAG \o strip(o.stderr))
    ELSE IF o.kind = "timeout"
    THEN Return(OCR_TIMEOUT_TEXT)
    ELSE Raise(o.msg)

\* ocr_image without the "except TimeoutExpired" clause: the timeout is
\* reported by the catch-all clause, as str(e)
ocr_image_timeout_generic(o) ==
    IF o.kind = "exit"
    THEN IF o.returncode = 0
         THEN Return(strip(o.stdout))
         ELSE Return(OCR_ERROR_TAG \o strip(o.stderr))
    ELSE Return(OCR_ERROR_TAG \o o.msg)

\* ocr_image whose timeout is raised to the caller
ocr_image_timeout_raised(o) ==
    IF o.kind = "exit"
    THEN IF o.returncode = 0
         THEN Return(strip(o.stdout))
         ELSE Return(OCR_ERROR_TAG \o strip(o.stderr))
    ELSE IF o.kind = "timeout"
    THEN Raise(o.msg)
    ELSE Return(OCR_ERROR_TAG \o o.msg)

\* ocr_image(filepath), given how the tesseract invocation ended
ocr_image(o) ==
    IF o.kind = "exit"
    THEN IF o.returncode = 0
         THEN Return(strip(o.stdout))
         ELSE Return(OCR_ERROR_TAG \o strip(o.stderr))
    ELSE IF o.kind = "timeout"
    THEN Return(OCR_TIMEOUT_TEXT)
    ELSE Return(OCR_ERROR_TAG \o o.msg)

\* the try/except around pdftoppm catching CalledProcessError only
rasterize_timeout_uncaught(o) ==
    IF o.kind = "exit" /\ o.returncode = 0
    THEN [go |-> "continue", val |-> <<>>]
    ELSE IF o.kind = "exit"
    THEN [go |-> "return", val |-> PDF_ERROR_PREFIX \o o.msg]
    ELSE [go |-> "raise", val |-> o.msg]

\* the try/except around pdftoppm in ocr_pdf: "continue" falls through to the
\* page loop, "return" is the early return, "raise" an exception not caught
rasterize(o) ==
    IF o.kind = "exit" /\ o.returncode = 0
    THEN [go |-> "continue", val |-> <<>>]
    ELSE IF o.kind = "exit" \/ o.kind = "timeout"
    THEN [go |-> "return", val |-> PDF_ERROR_PREFIX \o o.msg]
    ELSE [go |-> "raise", val |-> o.msg]

\* f"--- Page {i} ---\n{page_text}"
page_block(i, page_text) == PAGE_HEAD \o Str(i) \o PAGE_TAIL \o page_text

\* the return value of ocr_pdf after the page loop
pdf_text(parts) ==
    IF parts # <<>> THEN join(PAGE_SEP, parts) ELSE NO_TEXT_SENTINEL

\* the health response carrying the whole version output
health_version_whole_output(o) ==
    IF o.kind = "exit" THEN o.stdout ELSE UNAVAILABLE

\* the tesseract field of the health response
health_version(o) ==
    IF o.kind = "exit" THEN first_line(o.stdout) ELSE UNAVAILABLE

\* a directory made with tempfile.mkdtemp() and never removed
tmpdir_cleanup_missing(files) == files

\* leaving "with tempfile.TemporaryDirectory()": the directory is removed
tmpdir_cleanup(files) == files \ {TMP_DIR}

\* process_ocr without its finally clause
unlink_missing(files, path) == files

\* the finally clause of process_ocr: os.unlink(tmp_path)
unlink(files, path) == files \ {path}

(* ------------------------------ responses ------------------------------ *)
Response(k, st, err, txt, name, ok, hs, tv) ==
    [kind |-> k, status |-> st, error |-> err, text |-> txt, filename |-> name,
     characters |-> Len(txt), success |-> ok, health |-> hs, tesseract |-> tv]

NoResponse == Response("none", 0, <<>>, <<>>, <<>>, FALSE, <<>>, <<>>)

\* jsonify({'error': msg}), code
ErrorResponse(code, msg) ==
    Response("error", code, msg, <<>>, <<>>, FALSE, <<>>, <<>>)

\* jsonify({'text': ..., 'filename': ..., 'characters': ..., 'success': True})
OkResponse(txt, name) == Response("ok", 200, <<>>, txt, name, TRUE, <<>>, <<>>)

\* jsonify({'status': 'ok', 'tesseract': tess_version})
HealthResponse(tv) == Response("health", 200, <<>>, <<>>, <<>>, FALSE, STATUS_OK, tv)

\* an exception that left the handler: Flask answers 500 on its own
Unhandled(msg) == Response("unhandled", 500, msg, <<>>, <<>>, FALSE, <<>>, <<>>)

NoExc == [raised |-> FALSE, val |-> <<>>]

(* -------------------------------- state -------------------------------- *)
VARIABLES
    pc,           \* where the handler is
    file,         \* request.files['file'] (present = the field exists)
    ext,          \* process_ocr: ext
    files,        \* the temporary files and directories that exist on disk
    dir,          \* the names inside the temporary directory
    created,      \* every temporary file or directory the request created
    listing,      \* what os.listdir(tmpdir) returned
    page_images,  \* ocr_pdf: page_images
    i,            \* ocr_pdf: the index enumerate() gives the next page
    text_parts,   \* ocr_pdf: text_parts
    text,         \* process_ocr: text
    exc,          \* the exception propagating into process_ocr's try block
    response,     \* what the handler answered
    log,          \* the external programs invoked so far, in order
    last          \* the latest tesseract call: its outcome and what was made of it

vars ==
    <<pc, file, ext, files, dir, created, listing, page_images, i, text_parts,
      text, exc, response, log, last>>

\* tmp.name: the temporary file's name ends in the validated extension
tmp_path == TMP_FILE_STEM \o <<".">> \o ext

\* one invocation: the program, its file argument, how it ended, the page
\* images it wrote and the text its caller made of it
LogEntry(cmd, path, o, res) ==
    [cmd |-> cmd, path |-> path, outcome |-> OutcomeKind(o),
     pages |-> o.pages, result |-> res]

NoCall ==
    [fn |-> "none", outcome |-> Outcome("none", 0, <<>>, <<>>, <<>>, 0),
     result |-> NoExc]

Init ==
    /\ pc = "idle"
    /\ file = [present |-> FALSE, filename |-> <<>>]
    /\ ext = <<>>
    /\ files = {}
    /\ dir = {}
    /\ created = {}
    /\ listing = <<>>
    /\ page_images = <<>>
    /\ i = 1
    /\ text_parts = <<>>
    /\ text = <<>>
    /\ exc = NoExc
    /\ response = NoResponse
    /\ log = <<>>
    /\ last = NoCall

(* ------------------------------- POST /ocr ----------------------------- *)
\* process_ocr, lines 64-75: the three rejections, then ext
ProcessOcrValidate ==
    /\ pc = "idle"
    /\ \E f \in Requests :
        /\ file' = f
        /\ IF ~f.present
           THEN /\ response' = ErrorResponse(400, ERR_NO_FILE)
                /\ pc' = "done"
                /\ ext' = ext
           ELSE IF f.filename = <<>>
           THEN /\ response' = ErrorResponse(400, ERR_EMPTY_FILENAME)
                /\ pc' = "done"
                /\ ext' = ext
           ELSE IF ~allowed_file(f.filename)
           THEN /\ response' = ErrorResponse(400, ERR_UNSUPPORTED_PREFIX \o f.filename)
                /\ pc' = "done"
                /\ ext' = ext
           ELSE /\ response' = response
                /\ pc' = "save"
                /\ ext' = lower(rsplit_ext(f.filename))
    /\ UNCHANGED <<files, dir, created, listing, page_images, i, text_parts,
                   text, exc, log, last>>

\* process_ocr, lines 76-78: the temporary file is created (delete=False) and
\* the upload saved into it; a failure of either is raised outside the try
SaveUpload ==
    /\ pc = "save"
    /\ \E o \in SaveOutcomes :
        IF o = "create_failed"
        THEN /\ response' = Unhandled(SAVE_ERROR)
             /\ pc' = "done"
             /\ UNCHANGED <<files, created>>
        ELSE /\ files' = files \cup {tmp_path}
             /\ created' = created \cup {tmp_path}
             /\ IF o = "save_failed"
                THEN /\ response' = Unhandled(SAVE_ERROR)
                     /\ pc' = "done"
                ELSE /\ response' = response
                     /\ pc' = IF ext = PDF_EXT THEN "ocr_pdf" ELSE "ocr_image"
    /\ UNCHANGED <<file, ext, dir, listing, page_images, i, text_parts, text,
                   exc, log, last>>

\* process_ocr, line 84: text = ocr_image(tmp_path)
OcrImageUpload ==
    /\ pc = "ocr_image"
    /\ \E o \in EngineOutcomes :
        LET r == ocr_image(o) IN
        /\ log' = Append(log, LogEntry("tesseract", tmp_path, o, r.val))
        /\ last' = [fn |-> "ocr_image", outcome |-> o, result |-> r]
        /\ IF r.raised
           THEN exc' = r /\ text' = text
           ELSE exc' = exc /\ text' = r.val
    /\ pc' = "respond"
    /\ UNCHANGED <<file, ext, files, dir, created, listing, page_images, i,
                   text_parts, response>>

\* ocr_pdf, lines 36-37: text_parts = [], the temporary directory is created
OcrPdfEnter ==
    /\ pc = "ocr_pdf"
    /\ text_parts' = <<>>
    /\ files' = files \cup {TMP_DIR}
    /\ created' = created \cup {TMP_DIR}
    /\ dir' = {}
    /\ pc' = "pdftoppm"
    /\ UNCHANGED <<file, ext, listing, page_images, i, text, exc, response,
                   log, last>>

\* ocr_pdf, lines 39-46: pdftoppm runs; on CalledProcessError or
\* TimeoutExpired the function returns, leaving the with block
Rasterize ==
    /\ pc = "pdftoppm"
    /\ \E o \in RasterOutcomes :
        LET r == rasterize(o) IN
        /\ log' = Append(log, LogEntry("pdftoppm", tmp_path, o, r.val))
        /\ IF r.go = "continue"
           THEN /\ dir' = {PageName(k, o.pages) : k \in 1..o.pages}
                /\ pc' = "listdir"
                /\ UNCHANGED <<files, text, exc>>
           ELSE /\ dir' = {}
                /\ files' = tmpdir_cleanup(files)
                /\ pc' = "respond"
                /\ IF r.go = "return"
                   THEN text' = r.val /\ exc' = exc
                   ELSE text' = text /\ exc' = Raise(r.val)
    /\ UNCHANGED <<file, ext, created, listing, page_images, i, text_parts,
                   response, last>>

\* ocr_pdf, lines 49-51: page_images = sorted(the .png names of os.listdir)
ListDir ==
    /\ pc = "listdir"
    /\ \E l \in Listings(dir) :
        /\ listing' = l
        /\ page_images' = sorted(png_only(l))
    /\ i' = 1
    /\ pc' = "pages"
    /\ UNCHANGED <<file, ext, files, dir, created, text_parts, text, exc,
                   response, log, last>>

\* ocr_pdf, lines 53-56: one iteration of the page loop
OcrPage ==
    /\ pc = "pages"
    /\ i <= Len(page_images)
    /\ \E o \in EngineOutcomes :
        LET r == ocr_image(o)
            img_path == TMP_DIR \o <<"/">> \o page_images[i]
        IN  /\ log' = Append(log, LogEntry("tesseract", img_path, o, r.val))
            /\ last' = [fn |-> "ocr_image", outcome |-> o, result |-> r]
            /\ IF r.raised
               THEN /\ exc' = r
                    /\ files' = tmpdir_cleanup(files)
                    /\ dir' = {}
                    /\ pc' = "respond"
                    /\ text_parts' = <<>>
                    /\ i' = 1
                    /\ listing' = <<>>
                    /\ page_images' = <<>>
               ELSE /\ text_parts' = Append(text_parts, page_block(i, r.val))
                    /\ i' = i + 1
                    /\ UNCHANGED <<exc, files, dir, pc, listing, page_images>>
    /\ UNCHANGED <<file, ext, created, text, response>>

\* ocr_pdf, lines 57-58: the loop is over, the with block is left and the
\* joined text (or the sentinel) returned; the function's locals are gone
OcrPdfReturn ==
    /\ pc = "pages"
    /\ i > Len(page_images)
    /\ files' = tmpdir_cleanup(files)
    /\ dir' = {}
    /\ text' = pdf_text(text_parts)
    /\ text_parts' = <<>>
    /\ i' = 1
    /\ listing' = <<>>
    /\ page_images' = <<>>
    /\ pc' = "respond"
    /\ UNCHANGED <<file, ext, created, exc, response, log, last>>

\* process_ocr, lines 86-95: the 200 answer or, for an exception, the 500
\* answer; the finally clause unlinks the temporary file on both paths
ProcessOcrRespond ==
    /\ pc = "respond"
    /\ response' = IF exc.raised
                   THEN ErrorResponse(500, exc.val)
                   ELSE OkResponse(text, file.filename)
    /\ files' = unlink(files, tmp_path)
    /\ pc' = "done"
    /\ UNCHANGED <<file, ext, dir, created, listing, page_images, i,
                   text_parts, text, exc, log, last>>

(* ------------------------------ GET /health ---------------------------- *)
\* health, lines 99-113
Health ==
    /\ pc = "idle"
    /\ \E o \in VersionOutcomes :
        /\ log' = Append(log, LogEntry("tesseract --version", <<>>, o, <<>>))
        /\ last' = [fn |-> "health", outcome |-> o,
                    result |-> Return(health_version(o))]
        /\ response' = HealthResponse(health_version(o))
    /\ pc' = "done"
    /\ UNCHANGED <<file, ext, files, dir, created, listing, page_images, i,
                   text_parts, text, exc>>

Next ==
    \/ ProcessOcrValidate
    \/ SaveUpload
    \/ OcrImageUpload
    \/ OcrPdfEnter
    \/ Rasterize
    \/ ListDir
    \/ OcrPage
    \/ OcrPdfReturn
    \/ ProcessOcrRespond
    \/ Health

Spec == Init /\ [][Next]_vars

(* ------------------------- vocabulary of the claims -------------------- *)
StartsWith(s, prefix) ==
    Len(s) >= Len(prefix) /\ SubSeq(s, 1, Len(prefix)) = prefix

Contains(s, part) ==
    \E k \in 1..Len(s) :
        /\ s[k] = part[1]
        /\ k + Len(part) - 1 <= Len(s)
        /\ SubSeq(s, k, k + Len(part) - 1) = part

\* t is s without its leading and trailing whitespace
IsTrimOf(t, s) ==
    \E a \in 0..Len(s) : \E b \in a..Len(s) :
        /\ t = SubSeq(s, a + 1, b)
        /\ \A k \in 1..a : s[k] \in Whitespace
        /\ \A k \in (b + 1)..Len(s) : s[k] \in Whitespace
        /\ t # <<>> => (t[1] \notin Whitespace /\ t[Len(t)] \notin Whitespace)

\* the handler has returned (or an exception has left it)
Returned == pc = "done"

\* the request was a POST /ocr
IsOcrRequest == response.kind # "health" /\ pc # "idle"

\* the request passes none of the three rejections of process_ocr, stated
\* on the characters of the filename
ValidUpload(f) ==
    /\ f.present
    /\ f.filename # <<>>
    /\ \E k \in 1..Len(f.filename) :
        /\ f.filename[k] = "."
        /\ \A m \in (k + 1)..Len(f.filename) : f.filename[m] # "."
        /\ \E e \in ALLOWED_EXTENSIONS :
            /\ Len(e) = Len(f.filename) - k
            /\ \A m \in 1..Len(e) : LowerChar(f.filename[k + m]) = e[m]

\* the rasterizer was run and ended this way
RasterEnded(kinds) ==
    \E k \in 1..Len(log) : log[k].cmd = "pdftoppm" /\ log[k].outcome \in kinds

\* some OCR engine invocation of the request did not exit with status zero
EngineFailed ==
    \E k \in 1..Len(log) : log[k].cmd = "tesseract" /\ log[k].outcome # "ok"

\* the answer is 200, success true, with a bracket-tagged text
TaggedSuccess ==
    /\ response.kind = "ok"
    /\ response.status = 200
    /\ response.success
    /\ \/ Contains(response.text, OCR_ERROR_TAG)
       \/ Contains(response.text, PDF_ERROR_TAG)
       \/ response.text = NO_TEXT_SENTINEL

\* the OCR invocations of the request, in the order they were made
EngineCalls == SelectSeq(log, LAMBDA e : e.cmd = "tesseract")

\* the number of page images the rasterizer wrote
PageCount ==
    LET k == CHOOSE m \in 1..Len(log) : log[m].cmd = "pdftoppm" IN log[k].pages

\* the k-th page image in ascending filename order: the name written by the
\* rasterizer that has exactly k - 1 of the written names below it
KthImage(k) ==
    LET names == {PageName(j, PageCount) : j \in 1..PageCount}
    IN  CHOOSE n \in names : Cardinality({m \in names : StrLess(m, n)}) = k - 1

\* tesseract was run on the image of that name
Recognised(name) ==
    \E m \in 1..Len(log) :
        log[m].cmd = "tesseract" /\ log[m].path = TMP_DIR \o <<"/">> \o name

\* the text ocr_image returned for the image of that name
ResultFor(name) ==
    LET k == CHOOSE m \in 1..Len(log) :
                log[m].cmd = "tesseract" /\ log[m].path = TMP_DIR \o <<"/">> \o name
    IN  log[k].result

\* the block of page k: its header, then the text recognised for the k-th
\* image in ascending filename order
ExpectedBlock(k) == PAGE_HEAD \o Str(k) \o PAGE_TAIL \o ResultFor(KthImage(k))

\* ocr_pdf is in or at the end of its page loop
InPageLoop == pc = "pages" /\ RasterEnded({"ok"})

\* ocr_pdf has rasterized successfully and has returned
PdfPagesDone ==
    /\ pc \in {"respond", "done"}
    /\ RasterEnded({"ok"})

(* --------------------------------- C1 ---------------------------------- *)
\* C1: when process_ocr has returned or an exception has left it, whatever
\* the outcome of the request, none of the temporary files and directories
\* the request created exists any more.
C1_NoTempRemains == Returned => (files \cap created = {} /\ dir = {})

(* --------------------------------- C2 ---------------------------------- *)
\* C2 as stated: for every accepted upload in which the OCR engine or the
\* rasterizer fails in any way, the answer is 200 with success true and a
\* bracket-tagged text, never a 4xx or 5xx.
C2_AnyFailureIs200 ==
    (Returned /\ (EngineFailed \/ RasterEnded({"nonzero", "timeout", "error"})))
        => TaggedSuccess

\* C2 amended: the OCR engine failing in any way, and the rasterizer exiting
\* non-zero or timing out, are answered 200 with success true and a
\* bracket-tagged text; a rasterizer that cannot be started is answered 500.
C2_CaughtFailureIs200 ==
    /\ (Returned /\ (EngineFailed \/ RasterEnded({"nonzero", "timeout"})))
            => TaggedSuccess
    /\ (Returned /\ RasterEnded({"error"}))
            => (response.kind = "error" /\ response.status = 500)

C2_Witness ==
    /\ Returned
    /\ RasterEnded({"timeout"})
    /\ response.status = 200
    /\ StartsWith(response.text, PDF_ERROR_TAG)

(* --------------------------------- C3 ---------------------------------- *)
\* C3: ocr_image raises nothing for any outcome of the tesseract
\* invocation; it returns the trimmed standard output on exit status zero
\* and a string beginning with "[OCR Error] " in every other case.
C3_OcrImageAlwaysReturns ==
    last.fn = "ocr_image" =>
        /\ ~last.result.raised
        /\ IF last.outcome.kind = "exit" /\ last.outcome.returncode = 0
           THEN IsTrimOf(last.result.val, last.outcome.stdout)
           ELSE StartsWith(last.result.val, OCR_ERROR_TAG)

C3_Witness ==
    /\ last.fn = "ocr_image"
    /\ last.outcome.kind = "error"
    /\ ~last.result.raised
    /\ StartsWith(last.result.val, OCR_ERROR_TAG)

(* --------------------------------- C4 ---------------------------------- *)
\* C4: after a rasterization that wrote N page images, the text ocr_pdf
\* returns is N blocks joined by a blank line, block k being the header
\* "--- Page k ---" followed by the OCR result of the k-th image in
\* ascending filename order, whatever order the directory listing had.
C4_PagesInSortedOrder ==
    /\ InPageLoop =>
            /\ Len(listing) = PageCount
            /\ Len(text_parts) <= PageCount
            /\ \A k \in 1..Len(text_parts) :
                    Recognised(KthImage(k)) /\ text_parts[k] = ExpectedBlock(k)
    /\ (PdfPagesDone /\ PageCount >= 1) =>
            /\ ~exc.raised
            /\ \A k \in 1..PageCount : Recognised(KthImage(k))
            /\ text = join(PAGE_SEP, [k \in 1..PageCount |-> ExpectedBlock(k)])

\* two pages listed in descending order have both been recognised, each
\* with its own text
C4_Witness ==
    /\ InPageLoop
    /\ PageCount = 2
    /\ StrLess(listing[2], listing[1])
    /\ Len(text_parts) = 2
    /\ ResultFor(listing[1]) # ResultFor(listing[2])

(* --------------------------------- C5 ---------------------------------- *)
\* extraction was entered: ocr_pdf made its directory or tesseract was run
ExtractionEntered == TMP_DIR \in created \/ EngineCalls # <<>>

C6_RasterFailureReturnsError ==
    RasterEnded({"nonzero", "timeout"}) =>
        /\ pc \in {"respond", "done"}
        /\ ~exc.raised
        /\ StartsWith(text, PDF_ERROR_TAG)
        /\ text_parts = <<>>
        /\ EngineCalls = <<>>
        /\ TMP_DIR \in created
        /\ TMP_DIR \notin files
        /\ dir = {}

\* ocr_pdf has just returned after pdftoppm exited non-zero
C6_Witness ==
    /\ pc = "respond"
    /\ RasterEnded({"nonzero"})
    /\ TMP_DIR \in created
    /\ TMP_DIR \notin files
    /\ StartsWith(text, PDF_ERROR_TAG)

(* --------------------------------- C7 ---------------------------------- *)
\* t is the part of s before its first newline (all of s when it has none)
IsFirstLineOf(t, s) ==
    /\ Len(t) <= Len(s)
    /\ t = SubSeq(s, 1, Len(t))
    /\ \A k \in 1..Len(t) : t[k] # "\n"
    /\ Len(t) < Len(s) => s[Len(t) + 1] = "\n"

\* C7: the health handler always answers 200 with status "ok"; the
\* tesseract field is "unavailable" when the engine could not be invoked and
\* the first line of its version output otherwise, whatever its exit status.
C7_HealthAlwaysOk ==
    last.fn = "health" =>
        /\ Returned
        /\ response.kind = "health"
        /\ response.status = 200
        /\ response.health = <<"o", "k">>
        /\ IF last.outcome.kind = "exit"
           THEN IsFirstLineOf(response.tesseract, last.outcome.stdout)
           ELSE response.tesseract =
                    <<"u", "n", "a", "v", "a", "i", "l", "a", "b", "l", "e">>

\* the version output ends its first line and the engine exited non-zero
C7_Witness ==
    /\ last.fn = "health"
    /\ last.outcome.kind = "exit"
    /\ last.outcome.returncode # 0
    /\ last.outcome.stdout = <<"v", "\n">>
    /\ response.status = 200
    /\ response.tesseract = <<"v">>

(* --------------------------------- C8 ---------------------------------- *)
\* C8: an exception raised during extraction is answered by process_ocr
\* with 500 and the exception's description as the error message, the
\* uploaded temporary file is deleted as on the success path, and the
\* exception does not leave process_ocr.
C8_ExtractionFailureIs500 ==
    /\ (Returned /\ exc.raised) =>
            /\ response.kind = "error"
            /\ response.status = 500
            /\ response.error = exc.val
            /\ tmp_path \in created
            /\ tmp_path \notin files
    /\ (Returned /\ ExtractionEntered /\ ~exc.raised) =>
            /\ response.kind = "ok"
            /\ tmp_path \notin files
    /\ (Returned /\ RasterEnded({"error"})) =>
            /\ exc.raised
            /\ \E m \in LaunchErrors : response.error = m

C8_Witness ==
    /\ Returned
    /\ RasterEnded({"error"})
    /\ response.status = 500
    /\ response.error = <<"E", "N", "O", "E", "N", "T">>
    /\ tmp_path \in created
    /\ files = {}

(* --------------------------------- C9 ---------------------------------- *)
C9_TimeoutText ==
    <<"[", "O", "C", "R", " ", "E", "r", "r", "o", "r", "]", " ", "P", "r",
      "o", "c", "e", "s", "s", "i", "n", "g", " ", "t", "i", "m", "e", "d",
      " ", "o", "u", "t">>

\* the upload is a single image whose tesseract invocation timed out
ImageTimedOut ==
    /\ ext # PDF_EXT
    /\ log # <<>>
    /\ log[1].cmd = "tesseract"
    /\ log[1].outcome = "timeout"

\* C9: when the tesseract invocation for a single-image upload times out,
\* the answer is 200 with text exactly "[OCR Error] Processing timed out",
\* and no exception reaches the HTTP layer.
C9_ImageTimeoutIs200 ==
    ImageTimedOut =>
        /\ ~exc.raised
        /\ text = C9_TimeoutText
        /\ Returned =>
            /\ response.kind = "ok"
            /\ response.status = 200
            /\ response.text = C9_TimeoutText
            /\ response.characters = 32

C9_Witness ==
    /\ Returned
    /\ ImageTimedOut
    /\ response.status = 200
    /\ response.text = C9_TimeoutText

(* --------------------------------- C10 --------------------------------- *)
\* C10: after a rasterization that wrote N page images, tesseract is run
\* once per page image, in ascending filename order, for all N pages: a
\* failed or timed-out page is a block of its own and the later pages are
\* still processed; pdftoppm is run once and no image is processed twice.
C10_OncePerPageInOrder ==
    RasterEnded({"ok"}) =>
        LET calls == EngineCalls IN
        /\ log[1].cmd = "pdftoppm"
        /\ Len(calls) = Len(log) - 1
        /\ Len(calls) <= PageCount
        /\ \A k \in 1..Len(calls) :
            /\ calls[k].path = TMP_DIR \o <<"/">> \o KthImage(k)
            /\ calls[k].outcome # "ok" =>
                    StartsWith(calls[k].result, OCR_ERROR_TAG)
        /\ \A j, k \in 1..Len(log) :
            j < k => <<log[j].cmd, log[j].path>> # <<log[k].cmd, log[k].path>>
        /\ pc = "pages" =>
            /\ Len(calls) = i - 1
            /\ Len(text_parts) = Len(calls)
            /\ \A k \in 1..Len(calls) :
                    endswith(text_parts[k], calls[k].result)
        /\ pc \in {"respond", "done"} =>
            /\ ~exc.raised
            /\ Len(calls) = PageCount

\* the first of two pages timed out and the second was still recognised
C10_Witness ==
    /\ Returned
    /\ RasterEnded({"ok"})
    /\ PageCount = 2
    /\ Len(EngineCalls) = 2
    /\ EngineCalls[1].outcome = "timeout"
    /\ EngineCalls[2].outcome = "ok"
    /\ response.status = 200

=============================================================================
